---- MODULE Spec2Model ----
(***************************************************************************)
(* The Hvu multilabel video dataset (slowfast/datasets/hvu.py) and the     *)
(* CLIP visual-encoder extraction script (extract_clip/extract.py).        *)
(*                                                                         *)
(* One config object is shared by every Hvu built on it.  ds is the Hvu    *)
(* object under observation: each construction runs __init__ on the shared *)
(* config, and either the new object is observed from then on or the       *)
(* caller keeps it aside and the observed one stays.  Objects act on each  *)
(* other through the config only.  The process is single-threaded: a new   *)
(* object is built, or the next item asked for, once the caller has taken  *)
(* the result of the call before.                                          *)
(*                                                                         *)
(* Python lists are sequences read through ListHas/ListGet, which keep     *)
(* Python's negative indexing; the _video_meta dict is its key set, read   *)
(* through MetaHas, which does not wrap.  Strings that the code slices or  *)
(* searches are sequences of one-character strings.                        *)
(***************************************************************************)
EXTENDS Integers, Sequences, FiniteSets, TLC

VARIABLES cfg, cfg0, csv, ds, lastCtor, call, sd, pos, new_state_dict, saved

vars == <<cfg, cfg0, csv, ds, lastCtor, call, sd, pos, new_state_dict, saved>>

extractVars == <<sd, pos, new_state_dict, saved>>

(* ---------------------------- bounds ---------------------------------- *)

MaxViews == 2

MaxCrops == 2

MaxSample == 2

MaxRows == 2

MaxLabels == 2

NumClasses == 2

MaxRetries == 7

MaxKeys == 3

None == "None"

Modes == {"train", "val", "test"}

(* ------------------------ Python containers --------------------------- *)

\* list[i]: a list accepts -len <= i < len
ListHas(list, i) == -Len(list) <= i /\ i < Len(list)

ListGet(list, i) == IF i >= 0 THEN list[i + 1] ELSE list[Len(list) + i + 1]

\* random.randint(a, b) draws from a..b, both ends included
RandInt(a, b) == a..b

\* os.path.join(prefix, path) for two components
PathJoin(prefix, path) ==
    IF Len(path) > 0 /\ path[1] = "/" THEN path
    ELSE IF Len(prefix) = 0 \/ prefix[Len(prefix)] = "/" THEN prefix \o path
    ELSE prefix \o <<"/">> \o path

(* --------------------------- Hvu.__init__ ------------------------------ *)

\* _num_clips, lines 42-47
NumClips(c, mode) ==
    IF mode \in {"train", "val"} THEN 1
    ELSE c.NUM_ENSEMBLE_VIEWS * c.NUM_SPATIAL_CROPS

\* the config after lines 42-45: train and val overwrite the TEST fields
CfgAfterInit(c, mode) ==
    IF mode \in {"train", "val"}
    THEN [c EXCEPT !.NUM_ENSEMBLE_VIEWS = 1, !.NUM_SPATIAL_CROPS = 1]
    ELSE c

\* one_hot_labels[label] = 1 on a tensor of NumClasses entries
LabelOk(label) == -NumClasses <= label /\ label < NumClasses

TensorPos(label) == IF label >= 0 THEN label ELSE label + NumClasses

\* lines 74-78; positions 0..NumClasses-1
OneHot(labels) ==
    [p \in 0..(NumClasses - 1) |->
        IF \E k \in 1..Len(labels) : TensorPos(labels[k]) = p THEN 1 ELSE 0]

\* the key written at line 84
MetaKeyBad(clip_idx, num_clips, idx) == clip_idx + idx

MetaKey(clip_idx, num_clips, idx) == clip_idx * num_clips + idx

EmptyLoader ==
    [path_to_videos |-> <<>>, labels |-> <<>>, spatial_temporal_idx |-> <<>>,
     video_meta |-> {}, error |-> "none"]

\* lines 80-84: for idx in range(self._num_clips)
RECURSIVE ClipLoop(_, _, _, _, _, _)
ClipLoop(st, path, one_hot, clip_idx, num_clips, idx) ==
    IF idx >= num_clips THEN st
    ELSE ClipLoop(
            [st EXCEPT
                !.path_to_videos = Append(@, path),
                !.labels = Append(@, one_hot),
                !.spatial_temporal_idx = Append(@, idx),
                !.video_meta = @ \cup {MetaKey(clip_idx, num_clips, idx)}],
            path, one_hot, clip_idx, num_clips, idx + 1)

\* lines 70-84: for clip_idx, path_label in enumerate(rows)
RECURSIVE RowLoop(_, _, _, _, _)
RowLoop(st, rows, prefix, num_clips, clip_idx) ==
    IF clip_idx >= Len(rows) THEN st
    ELSE LET row == rows[clip_idx + 1] IN
         IF \E k \in 1..Len(row.labels) : ~LabelOk(row.labels[k])
         THEN [st EXCEPT !.error = "IndexError"]
         ELSE RowLoop(
                ClipLoop(st, PathJoin(prefix, row.path), OneHot(row.labels),
                         clip_idx, num_clips, 0),
                rows, prefix, num_clips, clip_idx + 1)

\* lines 59-87, with the assertion of line 86
ConstructLoader(rows, prefix, num_clips) ==
    LET st == RowLoop(EmptyLoader, rows, prefix, num_clips, 0) IN
    IF st.error # "none" THEN st
    ELSE IF Len(st.path_to_videos) > 0 THEN st
    ELSE [st EXCEPT !.error = "AssertionError"]

\* lines 27-57: the object __init__ builds
NewDataset(c, mode, num_retries, rows) ==
    LET ld == ConstructLoader(rows, c.PATH_PREFIX, NumClips(c, mode)) IN
    [mode |-> mode,
     num_retries |-> num_retries,
     num_clips |-> NumClips(c, mode),
     path_to_videos |-> ld.path_to_videos,
     labels |-> ld.labels,
     spatial_temporal_idx |-> ld.spatial_temporal_idx,
     video_meta |-> ld.video_meta,
     aug |-> (mode = "train" /\ c.AUG_ENABLE),
     error |-> ld.error]

\* Hvu.__len__ and num_videos
DatasetLen(d) == Len(d.path_to_videos)

NoCall ==
    [pc |-> "idle", req |-> 0, index |-> 0, i_try |-> 0,
     temporal |-> 0, spatial |-> 0, container |-> None,
     attempts |-> 0, fails |-> 0, ev |-> "none", exc |-> "none",
     is_list |-> FALSE, ret |-> <<>>]

NoDs == [mode |-> "none"]

Busy == call.pc \in {"loop", "opened"}

\* the default of the num_retries parameter, line 27
DefaultRetries == 10

\* Hvu(cfg, mode, num_retries) on the shared config; the new object is the
\* observed one from now on
Construct(mode, num_retries) ==
    /\ call.pc = "idle"
    /\ LET d == NewDataset(CfgAfterInit(cfg, mode), mode, num_retries, csv) IN
        /\ cfg' = CfgAfterInit(cfg, mode)
        /\ lastCtor' = IF d.error = "none" THEN "ok" ELSE d.error
        /\ ds' = IF d.error = "none" THEN d ELSE ds
    /\ UNCHANGED <<cfg0, csv, call, extractVars>>

\* Hvu(cfg, mode) on the shared config for an object the caller keeps aside
\* (another split's loader); the observed object stays
ConstructOther(mode) ==
    /\ call.pc = "idle"
    /\ LET d == NewDataset(CfgAfterInit(cfg, mode), mode, DefaultRetries, csv) IN
        /\ cfg' = CfgAfterInit(cfg, mode)
        /\ lastCtor' = IF d.error = "none" THEN "ok" ELSE d.error
    /\ UNCHANGED <<cfg0, csv, ds, call, extractVars>>

(* -------------------------- Hvu.__getitem__ ---------------------------- *)

\* lines 103-105 and 114
TemporalSampleIndexBad(d, c, index) ==
    IF d.mode = "train" THEN -1
    ELSE ListGet(d.spatial_temporal_idx, index) \div c.NUM_ENSEMBLE_VIEWS

TemporalSampleIndex(d, c, index) ==
    IF d.mode = "train" THEN -1
    ELSE ListGet(d.spatial_temporal_idx, index) \div c.NUM_SPATIAL_CROPS

\* lines 103-105 and 115-116
SpatialSampleIndex(d, c, index) ==
    IF d.mode = "train" THEN -1
    ELSE IF c.NUM_SPATIAL_CROPS > 1
         THEN ListGet(d.spatial_temporal_idx, index) % c.NUM_SPATIAL_CROPS
         ELSE 1

\* self._video_meta[index]: a dict lookup, no negative indexing
MetaHasBad(d, index) == -DatasetLen(d) <= index /\ index < DatasetLen(d)

MetaHas(d, index) == index \in d.video_meta

\* the test "i_try > self._num_retries // 2" of lines 138, 141 and 167
PastHalfBad(d, i_try) == i_try >= d.num_retries \div 2

PastHalf(d, i_try) == i_try > d.num_retries \div 2

\* lines 138-148: the values index may take after a failed container open
IndexAfterOpenFail(d, index, i_try) ==
    IF d.mode # "test" /\ PastHalf(d, i_try)
    THEN RandInt(0, Len(d.path_to_videos) - 1)
    ELSE IF d.mode = "test" /\ PastHalf(d, i_try)
    THEN {index - 1}
    ELSE {index}

\* lines 167-168: the values index may take after decode returned None
IndexAfterDecodeFail(d, index, i_try) ==
    IF d.mode # "test" /\ PastHalf(d, i_try)
    THEN RandInt(0, Len(d.path_to_videos) - 1)
    ELSE {index}

\* dataset[index] is called; lines 99-121
GetItem(index) ==
    /\ call.pc = "idle"
    /\ ds # NoDs
    /\ index \in 0..(DatasetLen(ds) - 1)
    /\ call' = [NoCall EXCEPT
                  !.pc = "loop", !.req = index, !.index = index,
                  !.temporal = TemporalSampleIndex(ds, cfg, index),
                  !.spatial = SpatialSampleIndex(ds, cfg, index),
                  !.ev = "start"]
    /\ UNCHANGED <<cfg, cfg0, csv, ds, lastCtor, extractVars>>

InLoop == call.pc = "loop" /\ call.i_try < ds.num_retries

\* line 126 with an index no list entry answers: the IndexError is caught at
\* line 129 and raised again by the message of line 130
OpenIndexError ==
    /\ InLoop
    /\ ~ListHas(ds.path_to_videos, call.index)
    /\ call' = [call EXCEPT !.pc = "raised", !.exc = "IndexError",
                            !.attempts = @ + 1, !.ev = "index_error"]
    /\ UNCHANGED <<cfg, cfg0, csv, ds, lastCtor, extractVars>>

\* lines 124-149: get_video_container raises (raised) or returns None
OpenFail(raised) ==
    /\ InLoop
    /\ ListHas(ds.path_to_videos, call.index)
    /\ \E j \in IndexAfterOpenFail(ds, call.index, call.i_try) :
         call' = [call EXCEPT !.index = j, !.i_try = @ + 1,
                              !.attempts = @ + 1, !.fails = @ + 1,
                              !.container = None,
                              !.ev = IF raised THEN "open_raised" ELSE "open_none"]
    /\ UNCHANGED <<cfg, cfg0, csv, ds, lastCtor, extractVars>>

\* lines 124-132: get_video_container returns a container for the path
OpenOk ==
    /\ InLoop
    /\ ListHas(ds.path_to_videos, call.index)
    /\ call' = [call EXCEPT !.pc = "opened", !.attempts = @ + 1,
                            !.container = ListGet(ds.path_to_videos, call.index),
                            !.ev = "open_ok"]
    /\ UNCHANGED <<cfg, cfg0, csv, ds, lastCtor, extractVars>>

\* line 157: video_meta=self._video_meta[index] with a key the dict lacks
DecodeKeyError ==
    /\ call.pc = "opened"
    /\ ~MetaHas(ds, call.index)
    /\ call' = [call EXCEPT !.pc = "raised", !.exc = "KeyError", !.ev = "key_error"]
    /\ UNCHANGED <<cfg, cfg0, csv, ds, lastCtor, extractVars>>

\* lines 151-169: decoder.decode returns None
DecodeFail ==
    /\ call.pc = "opened"
    /\ MetaHas(ds, call.index)
    /\ \E j \in IndexAfterDecodeFail(ds, call.index, call.i_try) :
         call' = [call EXCEPT !.pc = "loop", !.index = j, !.i_try = @ + 1,
                              !.fails = @ + 1, !.ev = "decode_fail"]
    /\ UNCHANGED <<cfg, cfg0, csv, ds, lastCtor, extractVars>>

\* what one decoded and cropped clip carries, lines 151-163 and 171-206
Sample ==
    [frames |-> [path |-> call.container, meta |-> call.index,
                 temporal |-> call.temporal, spatial |-> call.spatial],
     labels |-> ListGet(ds.labels, call.index),
     index |-> call.index]

\* lines 151-163 and 171-207: decoder.decode returns frames
DecodeReturn ==
    /\ call.pc = "opened"
    /\ MetaHas(ds, call.index)
    /\ IF ds.aug /\ cfg.AUG_NUM_SAMPLE > 1
       THEN call' = [call EXCEPT !.pc = "returned", !.ev = "return",
                        !.is_list = TRUE,
                        !.ret = [k \in 1..cfg.AUG_NUM_SAMPLE |-> Sample]]
       ELSE call' = [call EXCEPT !.pc = "returned", !.ev = "return",
                        !.ret = <<Sample>>]
    /\ UNCHANGED <<cfg, cfg0, csv, ds, lastCtor, extractVars>>

\* line 209, whose message reads self._path_to_videos[index]
RaiseAfterRetries ==
    /\ call.pc = "loop"
    /\ call.i_try >= ds.num_retries
    /\ call' = [call EXCEPT
                  !.pc = "raised", !.ev = "exhausted",
                  !.exc = IF ListHas(ds.path_to_videos, call.index)
                          THEN "RuntimeError" ELSE "IndexError"]
    /\ UNCHANGED <<cfg, cfg0, csv, ds, lastCtor, extractVars>>

\* the caller takes what the call returned or raised; the process goes on
Retire ==
    /\ call.pc \in {"returned", "raised"}
    /\ call' = NoCall
    /\ UNCHANGED <<cfg, cfg0, csv, ds, lastCtor, extractVars>>

(* ------------------------ extract_clip/extract.py ---------------------- *)

Visual == <<"v", "i", "s", "u", "a", "l", ".">>

\* the slice k[7:] of line 10 and 11
VisualSlice == 7

\* the list of line 10
Dropped ==
    {<<"p", "r", "o", "j">>,
     <<"l", "n", "_", "p", "o", "s", "t", ".", "w", "e", "i", "g", "h", "t">>,
     <<"l", "n", "_", "p", "o", "s", "t", ".", "b", "i", "a", "s">>}

\* sub in k, on strings
Contains(k, sub) ==
    \E o \in 0..(Len(k) - Len(sub)) : SubSeq(k, o + 1, o + Len(sub)) = sub

\* k[n:]
SliceFrom(k, n) == IF n >= Len(k) THEN <<>> ELSE SubSeq(k, n + 1, Len(k))

\* od[k] = v on an OrderedDict: a key already there keeps its place
OdSet(od, k, v) ==
    IF \E i \in 1..Len(od) : od[i].k = k
    THEN [i \in 1..Len(od) |-> IF od[i].k = k THEN [k |-> k, v |-> v] ELSE od[i]]
    ELSE Append(od, [k |-> k, v |-> v])

\* lines 8-11: one turn of the loop over model.state_dict().items()
ExtractStep ==
    /\ saved = <<>>
    /\ pos < Len(sd)
    /\ LET k == sd[pos + 1].k
           v == sd[pos + 1].v
       IN  new_state_dict' =
             IF Contains(k, Visual) /\ SliceFrom(k, VisualSlice) \notin Dropped
             THEN OdSet(new_state_dict, SliceFrom(k, VisualSlice), v)
             ELSE new_state_dict
    /\ pos' = pos + 1
    /\ UNCHANGED <<sd, saved, cfg, cfg0, csv, ds, lastCtor, call>>

\* line 13: torch.save(new_state_dict, ...); saved holds the files written
Save ==
    /\ saved = <<>>
    /\ pos = Len(sd)
    /\ saved' = <<new_state_dict>>
    /\ UNCHANGED <<sd, pos, new_state_dict, cfg, cfg0, csv, ds, lastCtor, call>>

(* ------------------------- specifications ------------------------------ *)

Prefixes == {<<>>, <<"d">>, <<"d", "/">>}

\* AUG.NUM_SAMPLE is read only when AUG.ENABLE is set
AugConfigs ==
    {[ENABLE |-> FALSE, NUM_SAMPLE |-> 1]}
        \cup {[ENABLE |-> TRUE, NUM_SAMPLE |-> k] : k \in 1..MaxSample}

ConfigsOf(prefixes) ==
    {[NUM_ENSEMBLE_VIEWS |-> v, NUM_SPATIAL_CROPS |-> s,
      AUG_ENABLE |-> a.ENABLE, AUG_NUM_SAMPLE |-> a.NUM_SAMPLE,
      PATH_PREFIX |-> p] :
        v \in 1..MaxViews, s \in 1..MaxCrops, a \in AugConfigs, p \in prefixes}

\* row r of a plain file: video "v" followed by r marks, class (r-1) mod NumClasses
PlainRow(r) ==
    [path |-> <<"v">> \o [k \in 1..r |-> "i"], labels |-> <<(r - 1) % NumClasses>>]

PlainCsvs == {[r \in 1..n |-> PlainRow(r)] : n \in 0..MaxRows}

\* the rows of <mode>.csv after split(SEPARATOR), split('|') and int():
\* any labels from -1 to NumClasses, one to MaxLabels of them
LabelLists == UNION {[1..n -> (-1)..NumClasses] : n \in 1..MaxLabels}

RowPaths == {<<"a">>, <<"/", "b">>}

FreeRows == [path : RowPaths, labels : LabelLists]

InsertAt(seq, k, x) == SubSeq(seq, 1, k) \o <<x>> \o SubSeq(seq, k + 1, Len(seq))

\* plain files, and plain files with one free row put anywhere
LoaderCsvs ==
    PlainCsvs \cup
    UNION {{InsertAt(f, k, row) : k \in 0..Len(f), row \in FreeRows} :
              f \in {g \in PlainCsvs : Len(g) < MaxRows}}

ExtractIdle ==
    /\ sd = <<>> /\ pos = 0 /\ new_state_dict = <<>> /\ saved = <<>>

HvuIdle ==
    /\ ds = NoDs /\ lastCtor = "none"
    /\ call = NoCall

Init ==
    /\ cfg \in ConfigsOf({<<"d">>})
    /\ cfg0 = cfg
    /\ csv \in PlainCsvs
    /\ HvuIdle
    /\ ExtractIdle

Next ==
    \/ \E mode \in Modes, n \in 0..MaxRetries : Construct(mode, n)
    \/ \E mode \in Modes : ConstructOther(mode)
    \/ \E i \in 0..(MaxRows * MaxViews * MaxCrops) : GetItem(i)
    \/ OpenIndexError
    \/ \E raised \in BOOLEAN : OpenFail(raised)
    \/ OpenOk
    \/ DecodeKeyError
    \/ DecodeFail
    \/ DecodeReturn
    \/ RaiseAfterRetries
    \/ Retire

Spec == Init /\ [][Next]_vars

InitLoader ==
    /\ cfg \in {c \in ConfigsOf(Prefixes) : ~c.AUG_ENABLE}
    /\ cfg0 = cfg
    /\ csv \in LoaderCsvs
    /\ HvuIdle
    /\ ExtractIdle

NextLoader ==
    \/ \E mode \in Modes : Construct(mode, DefaultRetries)
    \/ \E mode \in Modes : ConstructOther(mode)

SpecLoader == InitLoader /\ [][NextLoader]_vars

\* parameter names of a checkpoint: visual ones, dropped ones, a text one,
\* and names that hold "visual." further in
KeyPool ==
    {Visual \o <<"a">>,
     Visual \o <<"p", "r", "o", "j">>,
     Visual \o <<"l", "n", "_", "p", "o", "s", "t", ".", "b", "i", "a", "s">>,
     <<"t", ".", "a">>,
     <<"x">> \o Visual \o <<"a">>,
     <<"y">> \o Visual \o <<"a">>}

\* state dicts: distinct names in any order, entry i holding tensor i
StateDicts ==
    {[i \in 1..Len(ks) |-> [k |-> ks[i], v |-> i]] :
        ks \in {q \in UNION {[1..n -> KeyPool] : n \in 0..MaxKeys} :
                  \A i, j \in 1..Len(q) : i # j => q[i] # q[j]}}

InitExtract ==
    /\ sd \in StateDicts
    /\ pos = 0 /\ new_state_dict = <<>> /\ saved = <<>>
    /\ cfg = CHOOSE c \in ConfigsOf({<<>>}) : TRUE
    /\ cfg0 = cfg
    /\ csv = <<>>
    /\ HvuIdle

NextExtract == ExtractStep \/ Save

SpecExtract == InitExtract /\ [][NextExtract]_vars

(* ------------------------------ claims --------------------------------- *)

InRange(i) == 0 <= i /\ i < DatasetLen(ds)

\* C1: whatever failed before, a returned sample is self-consistent: its
\* index j is in 0..len-1, its labels are _labels[j], its frames come from
\* the container opened for _path_to_videos[j] with _video_meta[j]; with
\* augmentation on and AUG.NUM_SAMPLE > 1 the returned lists hold
\* NUM_SAMPLE entries that all carry the same j, otherwise one triple.
C1_ReturnSelfConsistent ==
    call.pc = "returned" =>
        /\ \A k \in 1..Len(call.ret) :
             LET s == call.ret[k] IN
               /\ InRange(s.index)
               /\ s.index = call.ret[1].index
               /\ s.labels = ds.labels[s.index + 1]
               /\ s.frames.path = ds.path_to_videos[s.index + 1]
               /\ s.frames.meta = s.index
        /\ IF ds.mode = "train" /\ ds.aug /\ cfg.AUG_NUM_SAMPLE > 1
           THEN call.is_list /\ Len(call.ret) = cfg.AUG_NUM_SAMPLE
           ELSE ~call.is_list /\ Len(call.ret) = 1

C1_Witness ==
    /\ call.pc = "returned"
    /\ call.is_list
    /\ call.fails > 1
    /\ call.index # call.req

\* C2: when every attempt fails, the call makes exactly num_retries attempts
\* and raises RuntimeError, never another exception.
C2_AllFailRaisesRuntimeError ==
    (call.pc = "raised" /\ call.fails = call.attempts) =>
        /\ call.exc = "RuntimeError"
        /\ call.attempts = ds.num_retries

\* C3: in a test dataset holding V*S entries per row for the V and S that
\* __getitem__ reads, the entries of a row map onto every pair of
\* {0..V-1} x {0..S-1} once when S > 1, and onto temporal 0..V-1 once each
\* with spatial 1 when S = 1; in train mode both indices are -1.
C3_SamplingIndices ==
    LET V == cfg.NUM_ENSEMBLE_VIEWS
        S == cfg.NUM_SPATIAL_CROPS
        T(k) == TemporalSampleIndex(ds, cfg, k)
        P(k) == SpatialSampleIndex(ds, cfg, k)
    IN
    /\ (ds # NoDs /\ ds.mode = "test" /\ ds.num_clips = V * S) =>
         \A r \in 0..(Len(csv) - 1) :
            LET row == {r * ds.num_clips + c : c \in 0..(ds.num_clips - 1)} IN
            /\ \A k \in row : InRange(k)
            /\ \A k1, k2 \in row : (T(k1) = T(k2) /\ P(k1) = P(k2)) => k1 = k2
            /\ IF S > 1
               THEN {<<T(k), P(k)>> : k \in row} = (0..(V - 1)) \X (0..(S - 1))
               ELSE /\ {T(k) : k \in row} = 0..(V - 1)
                    /\ \A k \in row : P(k) = 1
    /\ (ds # NoDs /\ ds.mode = "train") =>
         \A k \in 0..(DatasetLen(ds) - 1) : T(k) = -1 /\ P(k) = -1
    /\ (Busy /\ ds.mode = "train") => call.temporal = -1 /\ call.spatial = -1
    /\ (Busy /\ ds.mode = "test" /\ ds.num_clips = V * S) =>
         /\ call.temporal \in 0..(V - 1)
         /\ IF S > 1
            THEN call.temporal * S + call.spatial = call.req % ds.num_clips
            ELSE call.temporal = call.req % ds.num_clips /\ call.spatial = 1

C3_Witness ==
    /\ ds # NoDs /\ ds.mode = "test"
    /\ cfg.NUM_ENSEMBLE_VIEWS = 2 /\ cfg.NUM_SPATIAL_CROPS = 2
    /\ ds.num_clips = 4
    /\ Busy /\ call.req = 7 /\ call.temporal = 1 /\ call.spatial = 1

\* C4: every stored label vector has NUM_CLASSES entries, 1 at exactly the
\* positions named in its row and 0 elsewhere, and the stored path is
\* PATH_PREFIX joined with the row's path.
C4_LabelVectors ==
    ds # NoDs =>
        \A r \in 0..(Len(csv) - 1), c \in 0..(ds.num_clips - 1) :
            LET at == r * ds.num_clips + c + 1
                row == csv[r + 1]
            IN
            /\ at <= DatasetLen(ds)
            /\ DOMAIN ds.labels[at] = 0..(NumClasses - 1)
            /\ \A p \in 0..(NumClasses - 1) :
                 ds.labels[at][p] =
                    IF \E k \in 1..Len(row.labels) : row.labels[k] = p THEN 1 ELSE 0
            /\ ds.path_to_videos[at] = PathJoin(cfg.PATH_PREFIX, row.path)

\* C5: the saved dict holds k' -> v exactly when the input holds
\* "visual." + k' -> v with k' not dropped, in the input's order.
C5_SavedIsVisualEncoder ==
    saved # <<>> =>
        LET out == saved[1] IN
        /\ \A i \in 1..Len(out) :
             /\ out[i].k \notin Dropped
             /\ \E j \in 1..Len(sd) :
                  sd[j].k = Visual \o out[i].k /\ sd[j].v = out[i].v
        /\ \A j \in 1..Len(sd) :
             (/\ Len(sd[j].k) >= Len(Visual)
              /\ SubSeq(sd[j].k, 1, Len(Visual)) = Visual
              /\ SubSeq(sd[j].k, Len(Visual) + 1, Len(sd[j].k)) \notin Dropped)
             => \E i \in 1..Len(out) :
                  Visual \o out[i].k = sd[j].k /\ out[i].v = sd[j].v
        /\ \A i1, i2 \in 1..Len(out), j1, j2 \in 1..Len(sd) :
             (/\ i1 < i2
              /\ sd[j1].k = Visual \o out[i1].k
              /\ sd[j2].k = Visual \o out[i2].k) => j1 < j2

\* C6: in test mode a returned sample always carries the requested index.
C6_TestReturnsRequested ==
    (call.pc = "returned" /\ ds.mode = "test") =>
        \A k \in 1..Len(call.ret) : call.ret[k].index = call.req

\* C7: throughout a call the working index stays in 0..len-1.
C7_IndexStaysInRange ==
    call.pc # "idle" => InRange(call.index)

FailEvents == {"open_raised", "open_none", "decode_fail"}

\* C8: within a call the index changes only after a failed attempt numbered
\* above num_retries // 2, so attempts 0..num_retries//2+1 run on, and a
\* success among them returns, the requested index; in train and val each
\* replacement lies in 0..len-1; in test a decode failure keeps the index.
C8_RetryOrdering ==
    [][
        /\ (Busy /\ call'.index # call.index) =>
              /\ call'.ev \in FailEvents
              /\ call.i_try > ds.num_retries \div 2
        /\ (Busy /\ ds.mode # "test" /\ call'.index # call.index) =>
              call'.index \in 0..(DatasetLen(ds) - 1)
        /\ (Busy /\ ds.mode = "test" /\ call' # call /\ call'.ev = "decode_fail") =>
              call'.index = call.index
        /\ (call'.pc # "idle" /\ call'.i_try <= ds'.num_retries \div 2 + 1) =>
              call'.index = call'.req
    ]_vars

C8_Witness ==
    /\ ds # NoDs /\ ds.mode = "val"
    /\ call.pc = "loop"
    /\ call.ev = "decode_fail"
    /\ call.index # call.req

\* C9: a finished loader over R >= 1 rows holds R * _num_clips entries in
\* each list, entry r*_num_clips + c carrying row r's path and labels and
\* _spatial_temporal_idx c, _video_meta has exactly the keys
\* 0..R*_num_clips-1, and __len__ is R * _num_clips; a file with no rows
\* fails the assertion.
C9_LoaderLists ==
    /\ ds # NoDs =>
         LET R == Len(csv)
             nc == ds.num_clips
         IN
         /\ R >= 1
         /\ Len(ds.path_to_videos) = R * nc
         /\ Len(ds.labels) = R * nc
         /\ Len(ds.spatial_temporal_idx) = R * nc
         /\ DatasetLen(ds) = R * nc
         /\ ds.video_meta = 0..(R * nc - 1)
         /\ \A r \in 0..(R - 1), c \in 0..(nc - 1) :
              /\ ds.path_to_videos[r * nc + c + 1] =
                    PathJoin(cfg.PATH_PREFIX, csv[r + 1].path)
              /\ ds.labels[r * nc + c + 1] = OneHot(csv[r + 1].labels)
              /\ ds.spatial_temporal_idx[r * nc + c + 1] = c
    /\ (Len(csv) = 0 /\ lastCtor # "none") =>
         lastCtor = "AssertionError" /\ ds = NoDs

C9_Witness ==
    /\ ds # NoDs /\ ds.mode = "test" /\ ds.num_clips = 4
    /\ Len(csv) = 2
    /\ csv[1].labels = <<-1, 1>>

\* C10: train and val datasets have _num_clips = 1, and a test dataset has
\* _num_clips = NUM_ENSEMBLE_VIEWS * NUM_SPATIAL_CROPS of the config as it
\* was before any dataset was built on it.
C10_NumClipsByMode ==
    ds # NoDs =>
        /\ ds.mode \in {"train", "val"} => ds.num_clips = 1
        /\ ds.mode = "test" =>
             ds.num_clips = cfg0.NUM_ENSEMBLE_VIEWS * cfg0.NUM_SPATIAL_CROPS

====
